---- MODULE Spec2Model ----
(***************************************************************************)
(* Model of rust-net-stab (src/src/main.rs): a tokio program that spawns   *)
(* one host sampler, one prober per configured endpoint and one warp       *)
(* server exposing the process-wide prometheus registry on GET /metrics.   *)
(*                                                                         *)
(* Tasks run on the worker threads of the multi-thread runtime built by    *)
(* #[tokio::main].  A task occupies a worker thread from the moment it is  *)
(* polled until it reaches an .await that suspends it; the only such       *)
(* points in the probers and the sampler are the tokio::time::sleep calls. *)
(* ping() is a synchronous std::process::Command::output() call, so a      *)
(* prober keeps its worker thread while the ping child process runs.       *)
(***************************************************************************)
EXTENDS Integers, Sequences, FiniteSets, TLC

(* ----------------------------- bounds --------------------------------- *)

\* Number of operations (first or later probe cycles, sample cycles,
\* requests) the environment and the timers start in one run.
MaxOps == 3

(* --------------------------- input domains ---------------------------- *)

EndpointA == [name |-> "A", address |-> "10.0.0.1"]
EndpointB == [name |-> "B", address |-> "10.0.0.2"]

\* Endpoint lists config.yaml may hold: none, one, the same endpoint twice,
\* two different ones.
EndpointLists == {<< >>, <<EndpointA>>, <<EndpointA, EndpointA>>,
                  <<EndpointA, EndpointB>>}

\* What line 125 yields: a Config, or the error of fs::read_to_string or
\* serde_yaml::from_str.
Configs == {[ok |-> TRUE, endpoints |-> c] : c \in EndpointLists}
ConfigError == [ok |-> FALSE, endpoints |-> << >>]

\* Durations start.elapsed() may measure, in abstract time units.
Latencies == {1, 2}

\* Values the sys_info reads may return on one host: the core count and the
\* total memory are fixed, the load average varies.
HostValues(stat) ==
    CASE stat = "cpu" -> {4}
      [] stat = "load" -> {1, 2}
      [] stat = "mem" -> {8}

\* State of the host's ping facility.  "ok": the ping command can be run.
\* "no_command": Command::output() fails to launch it, on every call.
Facilities == {"ok", "no_command"}

\* Worker threads of the runtime #[tokio::main] builds: one per CPU core.
WorkerCounts == {1, 2}

\* Results of a sys_info read as the sampler's history keeps them.
NotRead == [read |-> FALSE, ok |-> FALSE, val |-> 0]
ReadErr == [read |-> TRUE, ok |-> FALSE, val |-> 0]
ReadOk(v) == [read |-> TRUE, ok |-> TRUE, val |-> v]
ReadResults(stat) == {ReadErr} \cup {ReadOk(v) : v \in HostValues(stat)}

\* ping_endpoint tasks, by position in config.endpoints.
Probers == {1, 2}
\* Connections the server handles at a time.
Requests == {1, 2}
Stats == {"cpu", "load", "mem"}

\* Seconds a prober sleeps between two probes (line 67).
SleepSecs == 5

(* ------------------------------- state -------------------------------- *)

VARIABLES
    config,        \* what reading config.yaml yields: a Config or ConfigError
    facility,      \* the host's ping facility
    workers,       \* number of runtime worker threads
    mainpc,        \* position of main
    ppc,           \* position of each ping_endpoint task
    duration,      \* ping_endpoint's local `duration`, 0 outside the Ok arm
    sleepFor,      \* seconds of the sleep each prober is in, 0 outside a sleep
    ping_success,  \* IntCounterVec ping_success: label values -> count
    ping_fail,     \* IntCounterVec ping_fail: label values -> count
    ping_latency,  \* HistogramVec ping_latency: label values -> [count, sum]
    gauge,         \* the three host gauges
    spc,           \* position of the update_system_metrics task
    srv,           \* position of the serve_metrics task
    rpc,           \* position of each request
    snap,          \* what each request's gather() has read so far
    lastResp,      \* the metrics of the latest response sent, << >> before it
    budget,        \* operations left in this run
    nOk,           \* history: probes of each prober that returned Ok
    nErr,          \* history: probes of each prober that returned Err
    sres,          \* history: result of the sampler's latest read of each stat
    held,          \* history: per request and series, the values the series
                   \*   held between the start of gather() and its read
    quiet,         \* history: per request, what happened since its gather() began
    lastQuiet,     \* history: what happened since the gather() of lastResp began
                   \*   ("during": something did before lastResp was sent)
    follows        \* history: per request, whether lastResp was sent before its
                   \*   gather() began and is still the latest response

vars == <<config, facility, workers, mainpc, ppc, duration, sleepFor,
          ping_success, ping_fail, ping_latency, gauge, spc, srv, rpc, snap,
          lastResp, budget, nOk, nErr, sres, held, quiet, lastQuiet,
          follows>>

registry == <<ping_success, ping_fail, ping_latency, gauge>>

(* ------------------------------ helpers ------------------------------- *)

\* Label values that tell the tasks apart: the name and the task's position.
LabelsOfTask(p) == <<config.endpoints[p].name, ToString(p)>>

\* The label values a prober passes to with_label_values: [name, address].
LabelsOf(p) == <<config.endpoints[p].name, config.endpoints[p].address>>

\* Label tuples that some configured endpoint carries.
ConfigLabels == {LabelsOf(i) : i \in 1 .. Len(config.endpoints)}

\* A sample of a series as gather() reads it: <<n>> for a counter or a gauge,
\* <<count, sum>> for a histogram, << >> for a child that does not exist.
Absent == << >>

\* with_label_values that hands every caller a child of its own, reset.
with_fresh_child(family, labels, initial) ==
    [l \in DOMAIN family \cup {labels} |->
        IF l = labels THEN initial ELSE family[l]]

\* MetricVec::with_label_values: the child for these label values, created
\* with its initial value when the family has none yet.
with_label_values(family, labels, initial) ==
    [l \in DOMAIN family \cup {labels} |->
        IF l \in DOMAIN family THEN family[l] ELSE initial]

EmptyHistogram == [count |-> 0, sum |-> 0]

\* inc as a load followed by a store: the update is lost when another prober
\* of the same label values is between its own increment and its observe.
incRacy(family, labels) ==
    IF \E q \in 1 .. Len(config.endpoints) :
          /\ <<config.endpoints[q].name, config.endpoints[q].address>> = labels
          /\ ppc[q] = "observe"
    THEN family
    ELSE [family EXCEPT ![labels] = @ + 1]

\* inc on a family without labels: every child counts every outcome.
incAll(family, labels) == [l \in DOMAIN family |-> family[l] + 1]

\* IntCounter::inc on the child for `labels`: one atomic fetch-add.
inc(family, labels) == [family EXCEPT ![labels] = @ + 1]

\* An observe that drops the samples beyond its last bucket bound.
observeDroppingSlow(family, labels, v) ==
    IF v >= 2 THEN family
    ELSE [family EXCEPT ![labels] = [count |-> @.count + 1, sum |-> @.sum + v]]

\* Histogram::observe on the child for `labels`.
observe(family, labels, v) ==
    [family EXCEPT ![labels] = [count |-> @.count + 1, sum |-> @.sum + v]]

\* fn ping: Ok when the ping command ran and exited with success.
ping(fac, exitSuccess) ==
    IF fac = "unsupported" THEN "Err"
    ELSE IF fac = "no_command" THEN "Err"
    ELSE IF exitSuccess THEN "Ok" ELSE "Err"

\* The series a gather() visits, in order: families sorted by name, the
\* children of a labelled family one after the other.
LabelOrder ==
    LET la == <<EndpointA.name, EndpointA.address>>
        lb == <<EndpointB.name, EndpointB.address>>
    IN  (IF la \in ConfigLabels THEN <<la>> ELSE << >>) \o
        (IF lb \in ConfigLabels THEN <<lb>> ELSE << >>)

GatherOrder ==
    [i \in 1 .. Len(LabelOrder) |-> <<"ping_fail", LabelOrder[i]>>] \o
    [i \in 1 .. Len(LabelOrder) |-> <<"ping_latency", LabelOrder[i]>>] \o
    [i \in 1 .. Len(LabelOrder) |-> <<"ping_success", LabelOrder[i]>>] \o
    << <<"system_cpu_cores">>, <<"system_load_average">>, <<"system_memory_total">> >>

CounterSample(family, labels) ==
    IF labels \in DOMAIN family THEN <<family[labels]>> ELSE Absent
HistogramSample(family, labels) ==
    IF labels \in DOMAIN family
    THEN <<family[labels].count, family[labels].sum>> ELSE Absent

\* The value series s holds in the registry state <<succ, fail, lat, g>>.
ValueIn(succ, fail, lat, g, s) ==
    CASE s[1] = "ping_success" -> CounterSample(succ, s[2])
      [] s[1] = "ping_fail" -> CounterSample(fail, s[2])
      [] s[1] = "ping_latency" -> HistogramSample(lat, s[2])
      [] s[1] = "system_cpu_cores" -> <<g.cpu>>
      [] s[1] = "system_load_average" -> <<g.load>>
      [] s[1] = "system_memory_total" -> <<g.mem>>

SeriesValue(s) == ValueIn(ping_success, ping_fail, ping_latency, gauge, s)

\* Worker threads in use: a task holds one from its poll to its next
\* suspending .await.
ProberOnWorker(p) == ppc[p] \in {"ping", "observe"}
SamplerOnWorker == spc \in {"cpu", "load", "mem"}
RequestOnWorker(r) == rpc[r] \in {"gather", "encode"}
Busy ==
    Cardinality({p \in Probers : ProberOnWorker(p)})
    + (IF SamplerOnWorker THEN 1 ELSE 0)
    + Cardinality({r \in Requests : RequestOnWorker(r)})
FreeWorker == Busy < workers

\* History bookkeeping for a registry change leading to the primed registry:
\* a request that is gathering notes the new value of every series it has
\* not read yet (held[r][i] belongs to the i-th series of GatherOrder);
\* `what` is "created" (a series came into being), "written" (a counter,
\* histogram or gauge was written) or "nothing".
Noted(was, what) ==
    IF what = "written" THEN "written"
    ELSE IF what = "created" /\ was = "quiet" THEN "created"
    ELSE was
NoteChange(what) ==
    /\ held' = IF \A r \in Requests : rpc[r] # "gather" THEN held
               ELSE LET order == GatherOrder
                        now == [i \in 1 .. Len(order) |->
                                  ValueIn(ping_success', ping_fail', ping_latency',
                                          gauge', order[i])]
                    IN  [r \in Requests |->
                          IF rpc[r] = "gather"
                          THEN [i \in 1 .. Len(order) |->
                                 IF i > Len(snap[r]) THEN held[r][i] \cup {now[i]}
                                 ELSE held[r][i]]
                          ELSE held[r]]
    /\ quiet' = [r \in Requests |->
                 IF RequestOnWorker(r) THEN Noted(quiet[r], what) ELSE quiet[r]]
    /\ lastQuiet' = IF lastResp # << >> THEN Noted(lastQuiet, what) ELSE lastQuiet
    /\ follows' = follows

Creation(family, labels) ==
    IF labels \in DOMAIN family THEN "nothing" ELSE "created"

(* ------------------------------- Init --------------------------------- *)

\* The state main is in after the six register_* calls (lines 114-123).
Init ==
    /\ config \in Configs \cup {ConfigError}
    /\ facility \in Facilities
    /\ workers \in WorkerCounts
    /\ mainpc = "load"
    /\ ppc = [p \in Probers |-> "none"]
    /\ duration = [p \in Probers |-> 0]
    /\ sleepFor = [p \in Probers |-> 0]
    /\ ping_success = << >>
    /\ ping_fail = << >>
    /\ ping_latency = << >>
    /\ gauge = [cpu |-> 0, load |-> 0, mem |-> 0]
    /\ spc = "none"
    /\ srv = "none"
    /\ rpc = [r \in Requests |-> "idle"]
    /\ snap = [r \in Requests |-> << >>]
    /\ lastResp = << >>
    /\ budget = MaxOps
    /\ nOk = [p \in Probers |-> 0]
    /\ nErr = [p \in Probers |-> 0]
    /\ sres = [s \in Stats |-> NotRead]
    /\ held = [r \in Requests |-> << >>]
    /\ quiet = [r \in Requests |-> "quiet"]
    /\ lastQuiet = "quiet"
    /\ follows = [r \in Requests |-> FALSE]

(* ------------------------------- main --------------------------------- *)

mainVars == <<config, facility, workers>>
proberLocals == <<duration, sleepFor, nOk, nErr>>
serverVars == <<srv, rpc, snap, lastResp>>
history == <<held, quiet, lastQuiet, follows>>

\* Line 125: the config is read and parsed.
LoadConfig ==
    /\ mainpc = "load"
    /\ config.ok
    /\ mainpc' = "spawn_sampler"
    /\ UNCHANGED <<mainVars, ppc, proberLocals, registry, spc, serverVars,
                   budget, sres, history>>

\* A load that falls back to a Config without endpoints and carries on.
LoadConfigDefaulting ==
    /\ mainpc = "load"
    /\ ~config.ok
    /\ mainpc' = "spawn_sampler"
    /\ UNCHANGED <<mainVars, ppc, proberLocals, registry, spc, serverVars,
                   budget, sres, history>>

\* Line 125: either `?` returns the error from main.
LoadConfigFails ==
    /\ mainpc = "load"
    /\ ~config.ok
    /\ mainpc' = "exit_err"
    /\ UNCHANGED <<mainVars, ppc, proberLocals, registry, spc, serverVars,
                   budget, sres, history>>

\* Lines 129-133.
SpawnSampler ==
    /\ mainpc = "spawn_sampler"
    /\ spc' = "spawned"
    /\ mainpc' = "spawn_probers"
    /\ UNCHANGED <<mainVars, ppc, proberLocals, registry, serverVars,
                   budget, sres, history>>

\* Lines 135-143: one iteration of the for loop.
SpawnProber(p) ==
    /\ mainpc = "spawn_probers"
    /\ p <= Len(config.endpoints)
    /\ ppc[p] = "none"
    /\ \A q \in 1 .. p - 1 : ppc[q] # "none"
    /\ ppc' = [ppc EXCEPT ![p] = "spawned"]
    /\ UNCHANGED <<mainVars, mainpc, proberLocals, registry, spc, serverVars,
                   budget, sres, history>>

\* A main that spawns the server only when there is an endpoint to probe.
SpawnServerIfEndpoints ==
    /\ mainpc = "spawn_probers"
    /\ Len(config.endpoints) > 0
    /\ \A p \in 1 .. Len(config.endpoints) : ppc[p] # "none"
    /\ srv' = "spawned"
    /\ mainpc' = "await"
    /\ UNCHANGED <<mainVars, ppc, proberLocals, registry, spc, rpc, snap,
                   lastResp, budget, sres, history>>

\* Line 145.
SpawnServer ==
    /\ mainpc = "spawn_probers"
    /\ \A p \in 1 .. Len(config.endpoints) : ppc[p] # "none"
    /\ srv' = "spawned"
    /\ mainpc' = "await"
    /\ UNCHANGED <<mainVars, ppc, proberLocals, registry, spc, rpc, snap,
                   lastResp, budget, sres, history>>

(* --------------------------- ping_endpoint ---------------------------- *)

proberFrame == <<mainVars, mainpc, spc, gauge, serverVars, sres>>

\* The task is polled for the first time: lines 48-50 fetch the three
\* children, then lines 53-54 call ping, which blocks the thread.
ProberStart(p) ==
    /\ ppc[p] = "spawned"
    /\ FreeWorker
    /\ budget > 0
    /\ budget' = budget - 1
    /\ ping_success' = with_label_values(ping_success, LabelsOf(p), 0)
    /\ ping_fail' = with_label_values(ping_fail, LabelsOf(p), 0)
    /\ ping_latency' = with_label_values(ping_latency, LabelsOf(p), EmptyHistogram)
    /\ ppc' = [ppc EXCEPT ![p] = "ping"]
    /\ UNCHANGED <<proberFrame, proberLocals>>
    /\ NoteChange(Creation(ping_success, LabelsOf(p)))

\* Lines 58-59: the Ok arm up to the increment; latency_metric.observe is
\* still to run.
ArmOk(p, d) ==
    /\ ping_success' = inc(ping_success, LabelsOf(p))
    /\ duration' = [duration EXCEPT ![p] = d]
    /\ ppc' = [ppc EXCEPT ![p] = "observe"]
    /\ UNCHANGED <<ping_fail, ping_latency, sleepFor>>

\* An Err arm that records the elapsed time as well.
ArmErrObserving(p, d) ==
    /\ ping_fail' = inc(ping_fail, LabelsOf(p))
    /\ ping_latency' = observe(ping_latency, LabelsOf(p), d)
    /\ ppc' = [ppc EXCEPT ![p] = "sleep"]
    /\ sleepFor' = [sleepFor EXCEPT ![p] = SleepSecs]
    /\ UNCHANGED <<ping_success, duration>>

\* An Err arm that leaves the loop and ends the task.
ArmErrReturning(p, d) ==
    /\ ping_fail' = inc(ping_fail, LabelsOf(p))
    /\ ppc' = [ppc EXCEPT ![p] = "returned"]
    /\ UNCHANGED <<ping_success, ping_latency, duration, sleepFor>>

\* An Err arm that also starts the count of successes afresh.
ArmErrResetting(p, d) ==
    /\ ping_fail' = inc(ping_fail, LabelsOf(p))
    /\ ping_success' = [ping_success EXCEPT ![LabelsOf(p)] = 0]
    /\ ppc' = [ppc EXCEPT ![p] = "sleep"]
    /\ sleepFor' = [sleepFor EXCEPT ![p] = SleepSecs]
    /\ UNCHANGED <<ping_latency, duration>>

\* An Err arm that backs off: it sleeps twice as long as after a success.
ArmErrBackoff(p, d) ==
    /\ ping_fail' = inc(ping_fail, LabelsOf(p))
    /\ ppc' = [ppc EXCEPT ![p] = "sleep"]
    /\ sleepFor' = [sleepFor EXCEPT ![p] = 2 * SleepSecs]
    /\ UNCHANGED <<ping_success, ping_latency, duration>>

\* Lines 62-64, the Err arm, then line 67: the task suspends in sleep.
ArmErr(p, d) ==
    /\ ping_fail' = inc(ping_fail, LabelsOf(p))
    /\ ppc' = [ppc EXCEPT ![p] = "sleep"]
    /\ sleepFor' = [sleepFor EXCEPT ![p] = SleepSecs]
    /\ UNCHANGED <<ping_success, ping_latency, duration>>

\* Lines 54-65: ping returns, the elapsed time is taken and the match on
\* output runs up to its counter increment.
PingReturn(p) ==
    /\ ppc[p] = "ping"
    /\ UNCHANGED <<proberFrame, budget>>
    /\ \E exitSuccess \in BOOLEAN, d \in Latencies :
         LET output == ping(facility, exitSuccess)
         IN  /\ nOk' = [nOk EXCEPT ![p] = IF output = "Ok" THEN @ + 1 ELSE @]
             /\ nErr' = [nErr EXCEPT ![p] = IF output = "Err" THEN @ + 1 ELSE @]
             /\ IF output = "Ok" THEN ArmOk(p, d) ELSE ArmErr(p, d)
    /\ NoteChange("written")

\* Line 60, then line 67: the task suspends in sleep.
Observe(p) ==
    /\ ppc[p] = "observe"
    /\ ping_latency' = observe(ping_latency, LabelsOf(p), duration[p])
    /\ ppc' = [ppc EXCEPT ![p] = "sleep"]
    /\ duration' = [duration EXCEPT ![p] = 0]
    /\ sleepFor' = [sleepFor EXCEPT ![p] = SleepSecs]
    /\ UNCHANGED <<proberFrame, ping_success, ping_fail, budget, nOk, nErr>>
    /\ NoteChange("written")

\* Line 67 completes; the task is polled again and calls ping (lines 53-54).
ProberWake(p) ==
    /\ ppc[p] = "sleep"
    /\ FreeWorker
    /\ budget > 0
    /\ budget' = budget - 1
    /\ ppc' = [ppc EXCEPT ![p] = "ping"]
    /\ sleepFor' = [sleepFor EXCEPT ![p] = 0]
    /\ UNCHANGED <<proberFrame, duration, nOk, nErr, registry, history>>

(* ----------------------- update_system_metrics ------------------------ *)

samplerFrame == <<mainVars, mainpc, ppc, proberLocals, ping_success, ping_fail,
                  ping_latency, serverVars>>

\* gauge.set(read().unwrap_or_default() as f64)
SetOrZero(g, stat, res) == [g EXCEPT ![stat] = IF res.ok THEN res.val ELSE 0]

\* if let Ok(v) = read() { gauge.set(v as f64) }
SetIfOk(g, stat, res) == IF res.ok THEN [g EXCEPT ![stat] = res.val] ELSE g

\* The task is polled (first poll, or after the sleep of line 38).
SamplerPoll ==
    /\ spc \in {"spawned", "sleep"}
    /\ FreeWorker
    /\ budget > 0
    /\ budget' = budget - 1
    /\ spc' = "cpu"
    /\ sres' = [s \in Stats |-> NotRead]
    /\ UNCHANGED <<samplerFrame, gauge, history>>

SamplerRead(stat, next) ==
    /\ spc = stat
    /\ spc' = next
    /\ UNCHANGED <<samplerFrame, budget>>
    /\ \E res \in ReadResults(stat) :
         /\ gauge' = SetIfOk(gauge, stat, res)
         /\ sres' = [sres EXCEPT ![stat] = res]
         /\ NoteChange(IF res.ok THEN "written" ELSE "nothing")

\* Lines 26-28.
ReadCpu == SamplerRead("cpu", "load")
\* Lines 30-32.
ReadLoad == SamplerRead("load", "mem")
\* Lines 34-36, then line 38: the task suspends in sleep.
ReadMem == SamplerRead("mem", "sleep")

(* ---------------------------- serve_metrics --------------------------- *)

serverFrame == <<mainVars, mainpc, ppc, proberLocals, registry, spc, sres>>

\* Lines 105-106: the task is polled, binds the listener and waits for
\* connections.
ServerStart ==
    /\ srv = "spawned"
    /\ FreeWorker
    /\ srv' = "listening"
    /\ UNCHANGED <<serverFrame, rpc, snap, lastResp, budget, history>>

\* A client's GET /metrics reaches the listener.
Arrive(r) ==
    /\ srv = "listening"
    /\ rpc[r] = "idle"
    /\ \A q \in Requests : q < r => rpc[q] # "idle"
    /\ budget > 0
    /\ budget' = budget - 1
    /\ rpc' = [rpc EXCEPT ![r] = "pending"]
    /\ UNCHANGED <<serverFrame, srv, snap, lastResp, history>>

\* The request's task is polled and enters the route's closure: line 99,
\* prometheus::gather() begins.
Begin(r) ==
    /\ rpc[r] = "pending"
    /\ FreeWorker
    /\ rpc' = [rpc EXCEPT ![r] = "gather"]
    /\ held' = [held EXCEPT ![r] =
                  LET order == GatherOrder
                  IN  [i \in 1 .. Len(order) |-> {SeriesValue(order[i])}]]
    /\ quiet' = [quiet EXCEPT ![r] = "quiet"]
    /\ follows' = [follows EXCEPT ![r] = lastResp # << >>]
    /\ UNCHANGED <<serverFrame, srv, snap, lastResp, budget, lastQuiet>>

\* A histogram read whose sum is not the one that belongs to its count.
collectTorn(s) ==
    LET v == SeriesValue(s)
    IN  IF s[1] = "ping_latency" /\ v # Absent THEN <<v[1], 0>> ELSE v

\* Collector::collect on one series: a load of the child's atomic value.
collect(s) == SeriesValue(s)

\* A gather() that resets the load gauge as it reads.
GatherReadResetting(r) ==
    /\ rpc[r] = "gather"
    /\ LET order == GatherOrder
       IN  /\ snap' = [snap EXCEPT ![r] = Append(@, collect(order[Len(@) + 1]))]
           /\ rpc' = [rpc EXCEPT ![r] =
                        IF Len(snap[r]) + 1 = Len(order) THEN "encode" ELSE "gather"]
    /\ gauge' = [gauge EXCEPT !.load = 0]
    /\ UNCHANGED <<mainVars, mainpc, ppc, proberLocals, ping_success, ping_fail,
                   ping_latency, spc, sres, srv, lastResp, budget, history>>

\* Line 99: gather() reads the next series.
GatherRead(r) ==
    /\ rpc[r] = "gather"
    /\ LET order == GatherOrder
       IN  /\ snap' = [snap EXCEPT ![r] = Append(@, collect(order[Len(@) + 1]))]
           /\ rpc' = [rpc EXCEPT ![r] =
                        IF Len(snap[r]) + 1 = Len(order) THEN "encode" ELSE "gather"]
    /\ UNCHANGED <<serverFrame, srv, lastResp, budget, history>>

\* Lines 100-102: the families read are encoded and the response is sent.
Respond(r) ==
    /\ rpc[r] = "encode"
    /\ lastResp' = snap[r]
    /\ lastQuiet' = IF quiet[r] = "quiet" THEN "quiet" ELSE "during"
    /\ rpc' = [rpc EXCEPT ![r] = "idle"]
    /\ snap' = [snap EXCEPT ![r] = << >>]
    /\ held' = [held EXCEPT ![r] = << >>]
    /\ quiet' = [quiet EXCEPT ![r] = "quiet"]
    /\ follows' = [q \in Requests |-> FALSE]
    /\ UNCHANGED <<serverFrame, srv, budget>>

(* ---------------------------- specification --------------------------- *)

Next ==
    \/ LoadConfig
    \/ LoadConfigFails
    \/ SpawnSampler
    \/ \E p \in Probers : SpawnProber(p)
    \/ SpawnServer
    \/ \E p \in Probers : ProberStart(p)
    \/ \E p \in Probers : PingReturn(p)
    \/ \E p \in Probers : Observe(p)
    \/ \E p \in Probers : ProberWake(p)
    \/ SamplerPoll
    \/ ReadCpu
    \/ ReadLoad
    \/ ReadMem
    \/ ServerStart
    \/ \E r \in Requests : Arrive(r)
    \/ \E r \in Requests : Begin(r)
    \/ \E r \in Requests : GatherRead(r)
    \/ \E r \in Requests : Respond(r)

Spec == Init /\ [][Next]_vars

\* Synchronous code runs on and the ping child process exits, so a task
\* that holds a worker thread gives it back; a prober whose sleep is over is
\* polled once a worker thread is free.
Fairness ==
    /\ \A p \in Probers : WF_vars(ProberStart(p)) /\ WF_vars(PingReturn(p))
                          /\ WF_vars(Observe(p)) /\ WF_vars(ProberWake(p))
    /\ WF_vars(ReadCpu) /\ WF_vars(ReadLoad) /\ WF_vars(ReadMem)
    /\ \A r \in Requests : WF_vars(GatherRead(r)) /\ WF_vars(Respond(r))

\* The runs on a host with one core, where every task competes for the one
\* worker thread.
OneCoreInit == Init /\ workers = 1

FairSpec == OneCoreInit /\ [][Next]_vars /\ Fairness

\* main runs its synchronous code to the awaits of line 148, and a spawned
\* server task is polled once a worker thread is free.
MainFairness ==
    /\ WF_vars(LoadConfig) /\ WF_vars(LoadConfigFails)
    /\ WF_vars(SpawnSampler) /\ WF_vars(SpawnServer)
    /\ \A p \in Probers : WF_vars(SpawnProber(p))
    /\ WF_vars(ServerStart)

StartSpec == OneCoreInit /\ [][Next]_vars /\ Fairness /\ MainFairness

(* ------------------------------- faults ------------------------------- *)

faultFrame == <<mainVars, proberLocals, registry, rpc, snap, lastResp, sres,
                history>>

\* A panic inside the sampler's poll: tokio ends the task and keeps the panic
\* as the JoinError of its handle.
SamplerFault ==
    /\ SamplerOnWorker
    /\ budget > 0
    /\ budget' = budget - 1
    /\ spc' = "faulted"
    /\ UNCHANGED <<faultFrame, mainpc, ppc, srv>>

\* A panic inside a prober's poll.
ProberFault(p) ==
    /\ ProberOnWorker(p)
    /\ budget > 0
    /\ budget' = budget - 1
    /\ ppc' = [ppc EXCEPT ![p] = "faulted"]
    /\ UNCHANGED <<faultFrame, mainpc, spc, srv>>

\* Line 105: run() panics when it cannot bind 127.0.0.1:9898.
ServerFault ==
    /\ srv = "spawned"
    /\ FreeWorker
    /\ budget > 0
    /\ budget' = budget - 1
    /\ srv' = "faulted"
    /\ UNCHANGED <<faultFrame, mainpc, ppc, spc>>

\* Lines 147-149: main awaits the handles in the order they were pushed, the
\* sampler's first.  The sampler's loop never returns, so main stays on that
\* handle; when the handle yields a JoinError, `?` returns it from main and
\* the process ends with the runtime and every task still in it.
JoinError ==
    /\ mainpc = "await"
    /\ spc = "faulted"
    /\ mainpc' = "exit_err"
    /\ UNCHANGED <<faultFrame, ppc, spc, srv, budget>>

\* The process runs until main returns.
Alive == mainpc # "exit_err"

NextWithFaults ==
    \/ Alive /\ LoadConfig
    \/ Alive /\ LoadConfigFails
    \/ Alive /\ SpawnSampler
    \/ \E p \in Probers : Alive /\ SpawnProber(p)
    \/ Alive /\ SpawnServer
    \/ \E p \in Probers : Alive /\ ProberStart(p)
    \/ \E p \in Probers : Alive /\ PingReturn(p)
    \/ \E p \in Probers : Alive /\ Observe(p)
    \/ \E p \in Probers : Alive /\ ProberWake(p)
    \/ Alive /\ SamplerPoll
    \/ Alive /\ ReadCpu
    \/ Alive /\ ReadLoad
    \/ Alive /\ ReadMem
    \/ Alive /\ ServerStart
    \/ \E r \in Requests : Alive /\ Arrive(r)
    \/ \E r \in Requests : Alive /\ Begin(r)
    \/ \E r \in Requests : Alive /\ GatherRead(r)
    \/ \E r \in Requests : Alive /\ Respond(r)
    \/ Alive /\ SamplerFault
    \/ \E p \in Probers : Alive /\ ProberFault(p)
    \/ Alive /\ ServerFault
    \/ JoinError

\* The runs in which tasks may terminate by a fault.
FaultSpec == Init /\ [][NextWithFaults]_vars

(* ------------------------------ properties ---------------------------- *)

RECURSIVE SumOver(_, _)
SumOver(f, S) ==
    IF S = {} THEN 0
    ELSE LET x == CHOOSE y \in S : TRUE IN f[x] + SumOver(f, S \ {x})

Configured == 1 .. Len(config.endpoints)
ProbersOf(labels) == {p \in Configured : LabelsOf(p) = labels}
LabelA == <<EndpointA.name, EndpointA.address>>
LabelB == <<EndpointB.name, EndpointB.address>>

\* C1 as stated: whenever the cycles of endpoint E's prober are all
\* recorded, ping_success{E}, ping_fail{E} and the observation count of
\* ping_latency{E} equal that prober's own S, F and S.
C1_OwnCounts ==
    \A p \in Configured :
        ppc[p] \in {"ping", "sleep"} =>
            /\ ping_success[LabelsOf(p)] = nOk[p]
            /\ ping_fail[LabelsOf(p)] = nErr[p]
            /\ ping_latency[LabelsOf(p)].count = nOk[p]

\* C1 amended: for every label pair, whenever the cycles of all probers
\* configured with that pair are recorded, ping_success, ping_fail and the
\* observation count of ping_latency equal the successes, the failures and
\* the successes of those probers taken together.
C1_CountsPerLabelPair ==
    \A l \in DOMAIN ping_success :
        (\A p \in ProbersOf(l) : ppc[p] # "observe") =>
            /\ ping_success[l] = SumOver(nOk, ProbersOf(l))
            /\ ping_fail[l] = SumOver(nErr, ProbersOf(l))
            /\ ping_latency[l].count = SumOver(nOk, ProbersOf(l))

\* Two probers of one label pair have each recorded a cycle of their own.
C1_Witness ==
    /\ config.endpoints = <<EndpointA, EndpointA>>
    /\ ppc[1] = "sleep" /\ ppc[2] = "sleep"
    /\ nOk[1] = 1 /\ nErr[2] = 1
    /\ ping_success[LabelA] = 1 /\ ping_fail[LabelA] = 1
    /\ ping_latency[LabelA].count = 1

\* C2: in every state the observation count of ping_latency{E} is at most
\* ping_success{E}, and the step that records a failed probe leaves every
\* ping_latency histogram as it was.
C2_FailureAddsNoObservation ==
    /\ [](\A l \in DOMAIN ping_latency : ping_latency[l].count <= ping_success[l])
    /\ [][(\E p \in Probers : nErr'[p] # nErr[p]) => ping_latency' = ping_latency]_vars

\* A prober has recorded a success with its latency and then a failure.
C2_Witness ==
    /\ ppc[1] = "sleep" /\ nOk[1] = 1 /\ nErr[1] = 1
    /\ ping_fail[LabelA] = 1
    /\ ping_latency[LabelA].count = 1 /\ ping_success[LabelA] = 1

\* C3: for every label pair, the two counters together hold as many
\* increments as the probers configured with the pair have issued, also when
\* several probers increment the same child from different threads.
C3_NoLostIncrement ==
    \A l \in DOMAIN ping_success :
        ping_success[l] + ping_fail[l] =
            SumOver([p \in Probers |-> nOk[p] + nErr[p]], ProbersOf(l))

\* Two probers of one label pair are on worker threads at once, each past
\* its increment of the same counter.
C3_Witness ==
    /\ ppc[1] = "observe" /\ ppc[2] = "observe"
    /\ LabelsOf(1) = LabelsOf(2)
    /\ ping_success[LabelA] = 2

\* C4: every value a request's gather() has read is one that the series
\* held at some moment between the start of that gather() and the read.
C4_ScrapeReadsHeldValues ==
    \A r \in Requests :
        rpc[r] \in {"gather", "encode"} =>
            \A i \in 1 .. Len(snap[r]) : snap[r][i] \in held[r][i]

\* A gather() is complete and some series was written between its start
\* and the read of that series.
C4_Witness ==
    \E r \in Requests :
        /\ rpc[r] = "encode"
        /\ \E i \in 1 .. Len(snap[r]) : Cardinality(held[r][i]) >= 2

\* The probers whose worker thread is inside ping's Command::output().
BlockedInPing == {p \in Probers : ppc[p] = "ping"}

\* C5: probers blocked inside ping never hold every worker thread while a
\* request waits to be handled or another prober waits for its first poll.
C5_BlockedProbersStallNobody ==
    /\ \A r \in Requests :
          rpc[r] = "pending" => Cardinality(BlockedInPing) < workers
    /\ \A q \in Probers :
          (ppc[q] = "spawned" /\ budget > 0) => Cardinality(BlockedInPing) < workers

\* C6: a prober that has recorded a failed probe calls ping again, as long
\* as the run has operations left.
C6_ProbesAgainAfterFailure ==
    \A p \in Probers :
        (nErr[p] > 0 /\ ppc[p] # "ping" /\ budget > 0)
            ~> (ppc[p] = "ping" \/ budget = 0)

\* A prober is inside ping again after two failed probes.
C6_Witness ==
    \E p \in Probers : nErr[p] = 2 /\ ppc[p] = "ping"

\* C7: on a host whose ping command cannot be launched no prober records a
\* per-cycle failure.
C7_UnavailableFacilityNotCounted ==
    facility = "no_command" => \A p \in Probers : nErr[p] = 0

\* C8: a step of the sampler that reads one statistic sets that gauge to the
\* value read when the read succeeds, leaves it as it was when the read
\* fails, leaves the other two gauges alone and goes on to the next read or
\* to the sleep before the next cycle.
C8_IndependentReads ==
    [][\A stat \in Stats :
          (spc = stat /\ spc' # stat) =>
              /\ gauge'[stat] = IF sres'[stat].ok THEN sres'[stat].val ELSE gauge[stat]
              /\ \A other \in Stats \ {stat} : gauge'[other] = gauge[other]
              /\ sres'[stat].read
              /\ spc' \in {"load", "mem", "sleep"}]_vars

\* A cycle in which the core count could not be read and the other two reads
\* succeeded: the core count of the cycle before is still there.
C8_Witness ==
    /\ spc = "sleep"
    /\ sres["cpu"] = ReadErr /\ sres["load"] = ReadOk(2) /\ sres["mem"] = ReadOk(8)
    /\ gauge = [cpu |-> 4, load |-> 2, mem |-> 8]

\* C9: a step of a request (its arrival, the start of its gather(), a read,
\* the response) leaves every counter, histogram and gauge and the set of
\* existing series as they were.
C9_RequestsLeaveRegistryAlone ==
    [][(rpc' # rpc \/ snap' # snap) => registry' = registry]_vars

\* Two requests are gathering at once over a registry that holds a sample.
C9_Witness ==
    /\ rpc[1] = "gather" /\ rpc[2] = "gather"
    /\ Len(snap[1]) > 0 /\ Len(snap[2]) > 0
    /\ gauge.cpu = 4

\* C10: a request whose gather() began after the latest response
\* was sent gets the same metrics as that response when, from the start of
\* the earlier gather() to the end of the later one, no probe has been
\* recorded and no gauge set.
C10_SameWithoutRecording ==
    \A r \in Requests :
        (/\ rpc[r] = "encode" /\ follows[r] /\ quiet[r] = "quiet"
         /\ lastQuiet \in {"quiet", "created"}) => snap[r] = lastResp

\* C11: when config.yaml cannot be read or parsed, main never gets past line
\* 125: it ends with the error and the sampler, every prober and the server
\* stay unspawned, in every state of the run.
C11_ConfigErrorIsFatal ==
    ~config.ok =>
        /\ mainpc \in {"load", "exit_err"}
        /\ spc = "none"
        /\ srv = "none"
        /\ \A p \in Probers : ppc[p] = "none"
        /\ \A r \in Requests : rpc[r] = "idle"

\* main has returned the configuration error.
C11_Witness ==
    ~config.ok /\ mainpc = "exit_err"

\* The run was configured with an endpoint list that is empty.
EmptyList == config.ok /\ config.endpoints = << >>

\* C12: with an empty endpoint list the server comes to listen, no ping_*
\* series ever exists, and every gather() that completes and every response
\* sent holds the three host gauges and nothing else.
C12_EmptyListServesGauges ==
    /\ [](EmptyList =>
            /\ ping_success = << >> /\ ping_fail = << >> /\ ping_latency = << >>
            /\ GatherOrder = << <<"system_cpu_cores">>, <<"system_load_average">>,
                                <<"system_memory_total">> >>
            /\ \A r \in Requests : rpc[r] = "encode" => Len(snap[r]) = 3
            /\ lastResp # << >> => Len(lastResp) = 3)
    /\ (EmptyList ~> srv = "listening")

\* With an empty endpoint list a response was sent after a sample cycle; it
\* holds the three gauges as sampled.
C12_Witness ==
    /\ EmptyList
    /\ srv = "listening"
    /\ lastResp = << <<4>>, <<2>>, <<8>> >>

\* The (name, address) pair of the p-th configured endpoint, and the probers
\* that have fetched their series.
PairOf(p) == <<config.endpoints[p].name, config.endpoints[p].address>>
StartedProbers == {p \in Configured : ppc[p] \notin {"none", "spawned"}}
InObserve(p) == IF ppc[p] = "observe" THEN 1 ELSE 0

\* C13: each family holds exactly one series per (name, address) pair of the
\* probers that have started, and for two configured endpoints with the same
\* pair that series holds the outcomes of both probers added up.
C13_SamePairOneSeries ==
    /\ DOMAIN ping_success = {PairOf(p) : p \in StartedProbers}
    /\ DOMAIN ping_fail = {PairOf(p) : p \in StartedProbers}
    /\ DOMAIN ping_latency = {PairOf(p) : p \in StartedProbers}
    /\ \A p \in StartedProbers, q \in Configured :
          (p # q /\ PairOf(p) = PairOf(q)) =>
              /\ ping_success[PairOf(p)] = nOk[p] + nOk[q]
              /\ ping_fail[PairOf(p)] = nErr[p] + nErr[q]
              /\ ping_latency[PairOf(p)].count =
                    nOk[p] + nOk[q] - InObserve(p) - InObserve(q)

\* On two worker threads the probers of two endpoints with the same pair
\* are on the threads at once; one has recorded a success, the other a failure.
C13_Witness ==
    /\ workers = 2
    /\ config.endpoints = <<EndpointA, EndpointA>>
    /\ ppc[1] = "observe" /\ ppc[2] = "ping"
    /\ nOk[1] = 1 /\ nErr[2] = 1
    /\ DOMAIN ping_success = {LabelA}
    /\ ping_success[LabelA] = 1 /\ ping_fail[LabelA] = 1

\* C14: a labelled series exists only once something was written to it: every
\* ping_success and ping_fail series has been incremented and every
\* ping_latency series holds an observation.
C14_SeriesCreatedOnFirstWrite ==
    /\ \A l \in DOMAIN ping_success : ping_success[l] > 0
    /\ \A l \in DOMAIN ping_fail : ping_fail[l] > 0
    /\ \A l \in DOMAIN ping_latency : ping_latency[l].count > 0

\* C15: no step of the system lowers a ping_success or ping_fail value, and
\* every series that exists before a step exists after it.
C15_CountersNeverDecrease ==
    [][/\ \A l \in DOMAIN ping_success :
             l \in DOMAIN ping_success' /\ ping_success'[l] >= ping_success[l]
       /\ \A l \in DOMAIN ping_fail :
             l \in DOMAIN ping_fail' /\ ping_fail'[l] >= ping_fail[l]
       /\ DOMAIN ping_latency \subseteq DOMAIN ping_latency'
       /\ DOMAIN gauge' = DOMAIN gauge]_vars

\* A prober has recorded a success and a failure, and a request has been
\* answered in the same run.
C15_Witness ==
    /\ nOk[1] = 1 /\ nErr[1] = 1
    /\ ping_success[LabelA] = 1 /\ ping_fail[LabelA] = 1
    /\ lastResp # << >>

\* C16: in every prober, the return of a probe records exactly one outcome;
\* after it the task goes (through the observe of a success) into one sleep
\* of SleepSecs seconds, the same after a failure as after a success; nothing
\* is recorded outside the return of a probe, and the next probe starts only
\* from that sleep.
C16_OneRecordingOneSleep ==
    [][\A p \in Probers :
          /\ (ppc[p] = "ping" /\ ppc'[p] # "ping") =>
                /\ nOk'[p] + nErr'[p] = nOk[p] + nErr[p] + 1
                /\ ppc'[p] = IF nOk'[p] > nOk[p] THEN "observe" ELSE "sleep"
          /\ ppc[p] # "ping" => (nOk'[p] = nOk[p] /\ nErr'[p] = nErr[p])
          /\ (ppc[p] = "observe" /\ ppc'[p] # "observe") => ppc'[p] = "sleep"
          /\ (ppc[p] # "sleep" /\ ppc'[p] = "sleep") => sleepFor'[p] = SleepSecs
          /\ (ppc[p] = "sleep" /\ ppc'[p] # "sleep") =>
                (ppc'[p] = "ping" /\ sleepFor'[p] = 0)
          /\ (ppc[p] # "ping" /\ ppc'[p] = "ping") => ppc[p] \in {"spawned", "sleep"}]_vars

\* A prober is in its third probe, after one that succeeded and one that
\* failed.
C16_Witness ==
    \E p \in Probers : ppc[p] = "ping" /\ nOk[p] = 1 /\ nErr[p] = 1

\* Tasks that were spawned and have not terminated.
SamplerRunning == spc \notin {"none", "faulted"}
ProberRunning(p) == ppc[p] \notin {"none", "faulted"}
ServerRunning == srv \notin {"none", "faulted"}

\* C17: main has not returned as long as the sampler, a prober or the server
\* is running, also when some task has terminated by a fault.
C17_MainOutlivesTasks ==
    mainpc = "exit_err" =>
        /\ ~SamplerRunning
        /\ \A p \in Probers : ~ProberRunning(p)
        /\ ~ServerRunning

\* Family `after` agrees with family `before` on every series but the one of
\* `labels`: same series, same values.
SameButFor(before, after, labels) ==
    /\ DOMAIN after \ {labels} = DOMAIN before \ {labels}
    /\ \A l \in DOMAIN before \ {labels} : after[l] = before[l]

\* C18: a step of the prober of endpoint E leaves the three gauges and every
\* ping_* series of another (name, address) pair as they were; a step of the
\* sampler leaves every ping_* series as it was.
C18_WritersKeepToOwnSeries ==
    [][/\ \A p \in Configured :
             ppc'[p] # ppc[p] =>
                 /\ gauge' = gauge
                 /\ SameButFor(ping_success, ping_success', PairOf(p))
                 /\ SameButFor(ping_fail, ping_fail', PairOf(p))
                 /\ SameButFor(ping_latency, ping_latency', PairOf(p))
       /\ spc' # spc =>
             /\ ping_success' = ping_success
             /\ ping_fail' = ping_fail
             /\ ping_latency' = ping_latency]_vars

\* The probers of two different endpoints have each recorded an outcome in
\* their own series: a success for the first, a failure for the second.
C18_Witness ==
    /\ config.endpoints = <<EndpointA, EndpointB>>
    /\ nOk[1] = 1 /\ nErr[2] = 1
    /\ ping_success[LabelA] = 1 /\ ping_fail[LabelA] = 0
    /\ ping_success[LabelB] = 0 /\ ping_fail[LabelB] = 1

\* C19: for every label pair T, ping_success{T} is ahead of the observation
\* count of ping_latency{T} by at least 0 and at most the number of probers
\* configured with T, and by 0 when no prober of T is between its increment
\* and its observe.
C19_SuccessLeadsLatency ==
    \A l \in DOMAIN ping_success :
        LET ahead == ping_success[l] - ping_latency[l].count
        IN  /\ 0 <= ahead
            /\ ahead <= Cardinality(ProbersOf(l))
            /\ (\A p \in ProbersOf(l) : ppc[p] # "observe") => ahead = 0

\* One prober of a pair has recorded a success with its latency, and the
\* other prober of that pair is between its increment and its observe.
C19_Witness ==
    /\ config.endpoints = <<EndpointA, EndpointA>>
    /\ ppc[1] = "sleep" /\ ppc[2] = "observe"
    /\ ping_success[LabelA] = 2
    /\ ping_latency[LabelA].count = 1

====
